---- MODULE Spec2Model ----
(***************************************************************************)
(* A model of the pulsechain client library: the request handler and its   *)
(* status dispatch, the validators, the pagination wrapper and the         *)
(* endpoint methods of the resource clients.  The library is synchronous:  *)
(* every public call is one atomic step from the caller's point of view,   *)
(* so every action below is one complete call.  The state records the      *)
(* fixed configuration of the client objects and, for the last call made,  *)
(* the call itself, the HTTP requests it issued, its outcome and the       *)
(* mapping object the caller handed over as next_page_params.  pc tells    *)
(* whether the caller is about to make a call ("idle") or holds the        *)
(* outcome of the call it made ("returned"); net is what the network and   *)
(* the server will do with the next request.  session is the history of    *)
(* the calls of a caller that makes several calls on one client.           *)
(*                                                                         *)
(* Python values that may be None are tagged records [t, v]; strings are   *)
(* TLA+ strings, lists are sequences, dicts are functions on their keys.   *)
(***************************************************************************)
EXTENDS Integers, Sequences, FiniteSets, TLC

VARIABLES base_url, timeout, subpath, request_handler, net, pc, call, requests, outcome,
          caller_params, session

vars == <<base_url, timeout, subpath, request_handler, net, pc, call, requests, outcome,
          caller_params, session>>

(***************************************************************************)
(* Bounds of the model.                                                    *)
(***************************************************************************)
\* longest list handed to a validator called on its own
MaxLen == 3
\* longest filter list handed to an endpoint method
MaxFilterLen == 2
\* most calls a caller makes in one session
MaxCalls == 3
\* most pages a server holds for one result set
MaxPages == 3
\* longest string handed to add_decimal_sign, and largest decimal_places
MaxStrLen == 3
MaxPlaces == 4

(***************************************************************************)
(* Python values.                                                          *)
(***************************************************************************)
None == [t |-> "None"]
StrV(s) == [t |-> "str", v |-> s]
ListV(l) == [t |-> "list", v |-> l]
DictV(d) == [t |-> "dict", v |-> d]
EmptyDict == [k \in {} |-> ""]

\* Python truthiness: None, "", [] and {} are falsy
Truthy(x) ==
    CASE x.t = "None" -> FALSE
      [] x.t = "str"  -> x.v # ""
      [] x.t = "list" -> x.v # <<>>
      [] x.t = "dict" -> DOMAIN x.v # {}

\* d[k] = v on a dict
Put(d, k, v) == [x \in (DOMAIN d) \cup {k} |-> IF x = k THEN v ELSE d[x]]

\* all sequences over S of length 0..n
SeqsUpTo(S, n) == UNION {[1..k -> S] : k \in 0..n}

Return(v) == [kind |-> "return", value |-> v]
Raise(e, m) == [kind |-> "raise", exc |-> e, msg |-> m]

(***************************************************************************)
(* The exception hierarchy.                                                *)
(***************************************************************************)
PulseChainAPIException ==
    {"PulseChainAPIException", "PulseChainTimeoutException", "PulseChainServerError",
     "PulseChainUnprocessableEntityException", "PulseChainBadRequestException",
     "PulseChainUnknownException"}

PulsechainException == PulseChainAPIException \cup {"PulsechainException", "PulseChainBadParamException"}

(***************************************************************************)
(* The HTTP transport: what httpx.get does with a request.  It answers     *)
(* with a response (status code and raw body text) or raises the timeout   *)
(* exception of the phase that timed out.                                  *)
(***************************************************************************)
StatusCodes == {200, 400, 404, 422, 500, 503}

BodyBad == "{\"message\": \"bad\"}"
BodyInvalid == "{\"message\": \"invalid hash\"}"
BodyNoMessage == "{\"error\": \"oops\"}"
BodyNotJson == "Service Unavailable"
BodyPage == "{\"items\": [{\"a\": 1}], \"next_page_params\": {\"block_number\": 100}}"
BodyLastPage == "{\"items\": [{\"a\": 1}, {\"b\": 2}], \"next_page_params\": null}"
BodyList == "[{\"a\": 1}]"

Bodies == {BodyBad, BodyInvalid, BodyNoMessage, BodyNotJson, BodyPage, BodyLastPage, BodyList}

TimeoutPhases == {"ReadTimeout", "ConnectTimeout", "WriteTimeout", "PoolTimeout"}

TimeoutMessage(phase) ==
    CASE phase = "ReadTimeout"    -> "The read operation timed out"
      [] phase = "ConnectTimeout" -> "timed out"
      [] phase = "WriteTimeout"   -> "The write operation timed out"
      [] phase = "PoolTimeout"    -> "pool timeout"

Transport ==
    [t : {"response"}, status_code : StatusCodes, text : Bodies]
        \cup [t : {"timeout"}, phase : TimeoutPhases]

\* the body of page k of a result set: one item and the cursor of the next
\* page, null on the last page
PageBody(k, last) ==
    "{\"items\": [{\"page\": " \o ToString(k) \o "}], \"next_page_params\": "
        \o (IF last THEN "null" ELSE "{\"block_number\": " \o ToString(k * 100) \o "}") \o "}"

PageBodies == {PageBody(k, last) : k \in 1..MaxPages, last \in BOOLEAN}

\* the decoded body of a page
PageDecode(text) ==
    LET kl == CHOOSE kl \in (1..MaxPages) \X BOOLEAN : text = PageBody(kl[1], kl[2])
    IN  DictV([items |-> <<[page |-> kl[1]]>>,
               next_page_params |-> IF kl[2] THEN None
                                    ELSE DictV([block_number |-> kl[1] * 100])])

\* response.json(): the decoded body, or a JSONDecodeError
JsonDecode(text) ==
    CASE text = BodyBad       -> [ok |-> TRUE, val |-> DictV([message |-> "bad"])]
      [] text = BodyInvalid   -> [ok |-> TRUE, val |-> DictV([message |-> "invalid hash"])]
      [] text = BodyNoMessage -> [ok |-> TRUE, val |-> DictV([error |-> "oops"])]
      [] text = BodyPage      ->
            [ok |-> TRUE,
             val |-> DictV([items |-> <<[a |-> 1]>>,
                            next_page_params |-> DictV([block_number |-> 100])])]
      [] text = BodyLastPage  ->
            [ok |-> TRUE,
             val |-> DictV([items |-> <<[a |-> 1], [b |-> 2]>>, next_page_params |-> None])]
      [] text = BodyList      -> [ok |-> TRUE, val |-> ListV(<<[a |-> 1]>>)]
      [] text \in PageBodies  -> [ok |-> TRUE, val |-> PageDecode(text)]
      [] OTHER                -> [ok |-> FALSE]

(***************************************************************************)
(* exceptions.py: the constructors that read the message from the body.    *)
(***************************************************************************)
\* a constructor that hands the raw body on instead of its message field
MessageException_raw_body(exc, response) == Raise(exc, response.text)

\* j["message"] of the decoded body j, as the argument of the exception exc
MessageOf(exc, j) ==
    IF ~j.ok THEN Raise("JSONDecodeError", "Expecting value")
    ELSE IF j.val.t # "dict" THEN Raise("TypeError", "list indices must be integers")
    ELSE IF "message" \notin DOMAIN j.val.v THEN Raise("KeyError", "message")
    ELSE Raise(exc, j.val.v.message)

\* super().__init__(response.json()["message"])
MessageException(exc, response) == MessageOf(exc, JsonDecode(response.text))

PulseChainUnprocessableEntityException(response) ==
    MessageException("PulseChainUnprocessableEntityException", response)

PulseChainBadRequestException(response) ==
    MessageException("PulseChainBadRequestException", response)

(***************************************************************************)
(* req_handler.py                                                          *)
(***************************************************************************)
\* a dispatch whose unknown error leaves the status code out of its text
check_result_without_code(response) ==
    IF response.status_code = 200
    THEN LET j == JsonDecode(response.text)
         IN  IF j.ok THEN Return(j.val) ELSE Raise("JSONDecodeError", "Expecting value")
    ELSE IF response.status_code = 500
    THEN Raise("PulseChainServerError", "Response [500]")
    ELSE IF response.status_code = 422
    THEN PulseChainUnprocessableEntityException(response)
    ELSE IF response.status_code = 400
    THEN PulseChainBadRequestException(response)
    ELSE Raise("PulseChainUnknownException", response.text)

APIRequestHandler_check_result(response) ==
    IF response.status_code = 200
    THEN LET j == JsonDecode(response.text)
         IN  IF j.ok THEN Return(j.val) ELSE Raise("JSONDecodeError", "Expecting value")
    ELSE IF response.status_code = 500
    THEN Raise("PulseChainServerError", "Response [500]")
    ELSE IF response.status_code = 422
    THEN PulseChainUnprocessableEntityException(response)
    ELSE IF response.status_code = 400
    THEN PulseChainBadRequestException(response)
    ELSE Raise("PulseChainUnknownException",
               ToString(response.status_code) \o ": " \o response.text)

\* a request that leaves the query parameters behind
Request_without_params(path, params) ==
    [url |-> base_url \o "/" \o path, params |-> None, timeout |-> timeout]

\* the request handed to httpx.get
Request(path, params) ==
    [url |-> base_url \o "/" \o path, params |-> params, timeout |-> timeout]

\* a handler that sends the request a second time when it timed out
APIRequestHandler_get_retrying(path, params, tr) ==
    [requests |-> IF tr.t = "timeout" THEN <<Request(path, params), Request(path, params)>>
                  ELSE <<Request(path, params)>>,
     outcome  |->
        IF tr.t = "timeout"
        THEN IF tr.phase = "ReadTimeout"
             THEN Raise("PulseChainTimeoutException", TimeoutMessage(tr.phase))
             ELSE Raise(tr.phase, TimeoutMessage(tr.phase))
        ELSE APIRequestHandler_check_result(tr)]

\* [requests, outcome]: params is None or a dict; tr is what the transport does
APIRequestHandler_get(path, params, tr) ==
    [requests |-> <<Request(path, params)>>,
     outcome  |->
        IF tr.t = "timeout"
        THEN IF tr.phase = "ReadTimeout"
             THEN Raise("PulseChainTimeoutException", TimeoutMessage(tr.phase))
             ELSE Raise(tr.phase, TimeoutMessage(tr.phase))
        ELSE APIRequestHandler_check_result(tr)]

(***************************************************************************)
(* validators.py                                                           *)
(***************************************************************************)
\* a loop that looks at the first value only
AllValid_first_only(values, valid, i) == values = <<>> \/ values[1] \in valid

\* the for loop of a validator: TRUE when no value raises
RECURSIVE AllValid(_, _, _)
AllValid(values, valid, i) ==
    IF i > Len(values) THEN TRUE
    ELSE IF values[i] \notin valid THEN FALSE
    ELSE AllValid(values, valid, i + 1)

\* a join that puts the separator behind every value
RECURSIVE Join_trailing(_, _)
Join_trailing(sep, values) ==
    IF values = <<>> THEN ""
    ELSE values[1] \o sep \o Join_trailing(sep, Tail(values))

\* sep.join(values)
RECURSIVE Join(_, _)
Join(sep, values) ==
    IF values = <<>> THEN ""
    ELSE IF Len(values) = 1 THEN values[1]
    ELSE values[1] \o sep \o Join(sep, Tail(values))

valid_block_types == {"block", "uncle", "reorg"}
valid_txn_types ==
    {"token_transfer", "contract_creation", "contract_call", "coin_transfer", "token_creation"}
valid_txn_filters == {"pending", "validated"}
valid_address_txn_filters == {"to", "from"}
valid_methods == {"approve", "transfer", "multicall", "mint", "commit"}
valid_token_types == {"ERC-20", "ERC-721", "ERC-1155"}
valid_contract_filters == {"vyper", "solidity", "yul"}

BadParam(m) == Raise("PulseChainBadParamException", m)

validate_block_type(block_type) ==
    IF ~AllValid(block_type, valid_block_types, 1)
    THEN BadParam("block_type must be one of 'block', 'uncle', or 'reorg'")
    ELSE Return(Join(",", block_type))

validate_txn_type(txn_type) ==
    IF ~AllValid(txn_type, valid_txn_types, 1)
    THEN BadParam("txn_type must be one of 'token_transfer', 'contract_creation', 'contract_call', 'coin_transfer', or 'token_creation'")
    ELSE Return(Join(",", txn_type))

validate_txn_filter(txn_filter) ==
    IF ~AllValid(txn_filter, valid_txn_filters, 1)
    THEN BadParam("txn_filter must be either 'pending' or 'validated'")
    ELSE Return(Join(" | ", txn_filter))

validate_address_txn_filter(txn_filter) ==
    IF txn_filter \notin valid_address_txn_filters
    THEN BadParam("txn_filter must be either 'to' or 'from'")
    ELSE Return(txn_filter)

validate_method(method) ==
    IF ~AllValid(method, valid_methods, 1)
    THEN BadParam("method must be either 'approve', 'transfer', 'multicall', 'mint', or 'commit'")
    ELSE Return(Join(",", method))

validate_token_type(token_type) ==
    IF ~AllValid(token_type, valid_token_types, 1)
    THEN BadParam("token_type must be one of 'ERC-20', 'ERC-721', or 'ERC-1155'")
    ELSE Return(Join(",", token_type))

validate_contract_filters(contract_filters) ==
    IF ~AllValid(contract_filters, valid_contract_filters, 1)
    THEN BadParam("contract_filter must be one of 'vyper', 'solidity' or 'yul'")
    ELSE Return(Join(" | ", contract_filters))

(***************************************************************************)
(* The state after construction (client.py: Client.__init__).              *)
(***************************************************************************)
BASE_URL == "https://api.scan.pulsechain.com/api/v2"
DefaultTimeout == 60

Subpaths ==
    [stats |-> "stats", addresses |-> "addresses", transactions |-> "transactions",
     tokens |-> "tokens", blocks |-> "blocks", search |-> "search",
     smart_contracts |-> "smart-contracts"]

\* the one APIRequestHandler of the Client, which every resource client refers to
Handlers == [c \in DOMAIN Subpaths |-> "Client.request_handler"]

NoCall == [method |-> "none"]
NoObject == [t |-> "absent"]

Bogus == "bogus"

Init ==
    /\ base_url = BASE_URL
    /\ timeout = DefaultTimeout
    /\ subpath = Subpaths
    /\ request_handler = Handlers
    /\ session = <<>>
    /\ net \in Transport
    /\ pc = "idle"
    /\ call = NoCall
    /\ requests = <<>>
    /\ outcome = Return(None)
    /\ caller_params = NoObject

Config == <<base_url, timeout, subpath, request_handler>>

(***************************************************************************)
(* subclients/subpath_client.py                                            *)
(***************************************************************************)
\* return {"items": response} if isinstance(response, list) else response
ListAsItems(r) ==
    [requests |-> r.requests,
     outcome  |->
        IF r.outcome.kind = "return" /\ r.outcome.value.t = "list"
        THEN Return(DictV([items |-> r.outcome.value.v]))
        ELSE r.outcome]

\* a get that hands a bare list on as it came
SubpathClient_get_unwrapped(c, path, params, tr) ==
    APIRequestHandler_get(IF Truthy(path) THEN subpath[c] \o "/" \o path.v ELSE subpath[c],
                          params, tr)

\* a get that puts the slash behind the subpath also when there is no path
SubpathClient_get_trailing_slash(c, path, params, tr) ==
    LET full_path == subpath[c] \o "/" \o (IF path.t = "str" THEN path.v ELSE "")
    IN  ListAsItems(APIRequestHandler_get(full_path, params, tr))

\* SubpathClient.get of the client named c: path is None or a string
SubpathClient_get(c, path, params, tr) ==
    LET full_path == IF Truthy(path) THEN subpath[c] \o "/" \o path.v ELSE subpath[c]
    IN  ListAsItems(APIRequestHandler_get(full_path, params, tr))

(***************************************************************************)
(* utils.py: the pagination wrapper.                                       *)
(***************************************************************************)
\* a pop whose default is one mapping object shared by all calls: it is as the
\* last call that relied on it left it
wrapper_params_shared_default(kwargs) ==
    LET relied == {i \in 1..Len(session) :
                      "next_page_params" \notin DOMAIN session[i].call.kwargs}
        last == CHOOSE i \in relied : \A j \in relied : j <= i
    IN  IF "next_page_params" \in DOMAIN kwargs THEN kwargs.next_page_params
        ELSE IF relied = {} THEN DictV(EmptyDict)
        ELSE session[last].params_obj

\* a pop whose default is None instead of a new empty mapping
wrapper_params_default_none(kwargs) ==
    IF "next_page_params" \in DOMAIN kwargs THEN kwargs.next_page_params ELSE None

\* params = kwargs.pop("next_page_params", {})
wrapper_params(kwargs) ==
    IF "next_page_params" \in DOMAIN kwargs THEN kwargs.next_page_params
    ELSE DictV(EmptyDict)

\* a binding that lets positional arguments behind the last parameter pass
BindError_extra_ignored(args, nreq, npos) == Len(args) < nreq

\* func(self, *args, params=params) against a signature with nreq required and
\* npos positional parameters before params: TRUE when the call cannot be bound
BindError(args, nreq, npos) == Len(args) < nreq \/ Len(args) > npos

\* the i-th positional argument, or the parameter's default None
Arg(args, i) == IF i <= Len(args) THEN args[i] ELSE None

\* an envelope that loses the cursor of the page
wrapper_return_without_cursor(o) ==
    IF o.kind = "return"
    THEN Return([cls |-> "PaginatedResponse", items |-> o.value.items,
                 next_page_params |-> None])
    ELSE o

\* PaginatedResponse(items=base_response.items, next_page_params=next_page_params)
wrapper_return(o) ==
    IF o.kind = "return"
    THEN Return([cls |-> "PaginatedResponse", items |-> o.value.items,
                 next_page_params |-> o.value.next_page_params])
    ELSE o

\* the object the caller passed as next_page_params, as the call leaves it
CallerObject(kwargs, obj) ==
    IF "next_page_params" \in DOMAIN kwargs THEN obj ELSE NoObject

(***************************************************************************)
(* What the endpoint methods share.                                        *)
(***************************************************************************)
\* return BaseResponse(items=response["items"]), response["next_page_params"]
PageTuple(o) ==
    IF o.kind = "raise" THEN o
    ELSE IF o.value.t # "dict" THEN Raise("TypeError", "list indices must be integers")
    ELSE IF "items" \notin DOMAIN o.value.v THEN Raise("KeyError", "items")
    ELSE IF "next_page_params" \notin DOMAIN o.value.v THEN Raise("KeyError", "next_page_params")
    ELSE Return([items |-> o.value.v.items, next_page_params |-> o.value.v.next_page_params])

\* the progress of a method body: the params object and the exception raised so far
Running(p) == [raised |-> FALSE, p |-> p, exc |-> None]
Raised(p, e) == [raised |-> TRUE, p |-> p, exc |-> e]

\* params[k] = v, where params may be None
SetItem(s, k, v) ==
    IF s.raised THEN s
    ELSE IF s.p.t = "None"
    THEN Raised(s.p, Raise("TypeError", "'NoneType' object does not support item assignment"))
    ELSE Running(DictV(Put(s.p.v, k, v)))

\* params[k] = validate(...): the validator runs before the assignment
SetValidated(s, k, vo) ==
    IF s.raised THEN s
    ELSE IF vo.kind = "raise" THEN Raised(s.p, vo)
    ELSE SetItem(s, k, vo.value)

\* what a method whose params object is s.p makes of the response r
PageOf(r, s) ==
    [requests |-> r.requests, outcome |-> PageTuple(r.outcome), params_obj |-> s.p]

\* a method that sends its request before it looks at its arguments
GetPage_request_first(c, path, s, tr) ==
    IF s.raised
    THEN [requests |-> SubpathClient_get(c, path, s.p, tr).requests, outcome |-> s.exc,
          params_obj |-> s.p]
    ELSE PageOf(SubpathClient_get(c, path, s.p, tr), s)

\* response = self.get(path, params=params) and the return statement
GetPage(c, path, s, tr) ==
    IF s.raised THEN [requests |-> <<>>, outcome |-> s.exc, params_obj |-> s.p]
    ELSE PageOf(SubpathClient_get(c, path, s.p, tr), s)

\* the method failed to bind its arguments
NotBound(params, m) == [requests |-> <<>>, outcome |-> Raise("TypeError", m), params_obj |-> params]

(***************************************************************************)
(* subclients/blocks.py                                                    *)
(***************************************************************************)
BlocksClient_get_blocks(block_type, params, tr) ==
    LET own == ~Truthy(params)
        s0 == Running(IF own THEN DictV(EmptyDict) ELSE params)
        s1 == IF Truthy(block_type)
              THEN SetValidated(s0, "type", validate_block_type(block_type.v))
              ELSE s0
        r == GetPage("blocks", None, s1, tr)
    IN  [r EXCEPT !.params_obj = IF own THEN params ELSE r.params_obj]

paginated_get_blocks(args, kwargs, tr) ==
    LET params == wrapper_params(kwargs)
        r == IF BindError(args, 0, 1)
             THEN NotBound(params, "get_blocks() got multiple values for argument 'params'")
             ELSE BlocksClient_get_blocks(Arg(args, 1), params, tr)
    IN  [r EXCEPT !.outcome = wrapper_return(r.outcome)]

\* response = self.get(f"{block}/transactions", params=params)
BlocksClient_get_block_txns(block, params, tr) ==
    GetPage("blocks", StrV(block.v \o "/transactions"), Running(params), tr)

paginated_get_block_txns(args, kwargs, tr) ==
    LET params == wrapper_params(kwargs)
        r == IF BindError(args, 1, 1)
             THEN NotBound(params, "get_block_txns() got multiple values for argument 'params'")
             ELSE BlocksClient_get_block_txns(Arg(args, 1), params, tr)
    IN  [r EXCEPT !.outcome = wrapper_return(r.outcome)]

(***************************************************************************)
(* subclients/search.py                                                    *)
(***************************************************************************)
\* params["q"] = query; response = self.get(params=params)
SearchClient_search(query, params, tr) ==
    GetPage("search", None, SetItem(Running(params), "q", query.v), tr)

paginated_search(args, kwargs, tr) ==
    LET params == wrapper_params(kwargs)
        r == IF BindError(args, 1, 1)
             THEN NotBound(params, "search() got multiple values for argument 'params'")
             ELSE SearchClient_search(Arg(args, 1), params, tr)
    IN  [r EXCEPT !.outcome = wrapper_return(r.outcome)]

(***************************************************************************)
(* subclients/transactions.py                                              *)
(***************************************************************************)
TransactionsClient_get_transactions(txn_filter, txn_type, method, params, tr) ==
    LET s0 == Running(params)
        s1 == IF Truthy(params) /\ Truthy(txn_filter)
              THEN SetValidated(s0, "filter", validate_txn_filter(txn_filter.v))
              ELSE s0
        s2 == IF Truthy(params) /\ Truthy(txn_type)
              THEN SetValidated(s1, "tx_type", validate_txn_type(txn_type.v))
              ELSE s1
        s3 == IF Truthy(params) /\ Truthy(method)
              THEN SetValidated(s2, "method", validate_method(method.v))
              ELSE s2
    IN  GetPage("transactions", None, s3, tr)

paginated_get_transactions(args, kwargs, tr) ==
    LET params == wrapper_params(kwargs)
        r == IF BindError(args, 0, 3)
             THEN NotBound(params, "get_transactions() got multiple values for argument 'params'")
             ELSE TransactionsClient_get_transactions(Arg(args, 1), Arg(args, 2), Arg(args, 3),
                                                      params, tr)
    IN  [r EXCEPT !.outcome = wrapper_return(r.outcome)]

(***************************************************************************)
(* subclients/tokens.py                                                    *)
(***************************************************************************)
TokensClient_get_tokens(name_query, token_type, params, tr) ==
    LET own == ~Truthy(params)
        s0 == Running(IF own THEN DictV(EmptyDict) ELSE params)
        s1 == SetItem(s0, "q", name_query.v)
        s2 == IF Truthy(token_type)
              THEN SetValidated(s1, "type", validate_token_type(token_type.v))
              ELSE s1
        r == GetPage("tokens", None, s2, tr)
    IN  [r EXCEPT !.params_obj = IF own THEN params ELSE r.params_obj]

paginated_get_tokens(args, kwargs, tr) ==
    LET params == wrapper_params(kwargs)
        r == IF BindError(args, 1, 2)
             THEN NotBound(params, "get_tokens() missing or multiple values for an argument")
             ELSE TokensClient_get_tokens(Arg(args, 1), Arg(args, 2), params, tr)
    IN  [r EXCEPT !.outcome = wrapper_return(r.outcome)]

(***************************************************************************)
(* subclients/addresses.py                                                 *)
(***************************************************************************)
AddressesClient_get_address_txns(address, endpoint, params, txn_filter, tr) ==
    LET s0 == Running(params)
        s1 == IF txn_filter.t # "None"
              THEN SetValidated(s0, "filter", validate_address_txn_filter(txn_filter.v))
              ELSE s0
    IN  GetPage("addresses", StrV(address.v \o "/" \o endpoint), s1, tr)

\* params = kwargs.pop("params", {}), the wrapper having passed params by keyword
AddressesClient_get_transactions(address, txn_filter, params, tr) ==
    AddressesClient_get_address_txns(address, "transactions", params, txn_filter, tr)

AddressesClient_get_internal_transactions(address, txn_filter, params, tr) ==
    AddressesClient_get_address_txns(address, "internal-transactions", params, txn_filter, tr)

AddressesClient_get_token_transfers(address, token_type, txn_filter, token, params, tr) ==
    LET s0 == Running(params)
        s1 == IF Truthy(token_type)
              THEN SetValidated(s0, "token_type", validate_token_type(token_type.v))
              ELSE s0
        s2 == IF Truthy(txn_filter)
              THEN SetValidated(s1, "filter", validate_address_txn_filter(txn_filter.v))
              ELSE s1
        s3 == IF Truthy(token) THEN SetItem(s2, "token", token.v) ELSE s2
    IN  GetPage("addresses", StrV(address.v \o "/token-transfers"), s3, tr)

AddressesClient_get_tokens(address, token_type, params, tr) ==
    LET s0 == Running(params)
        s1 == IF Truthy(token_type)
              THEN SetValidated(s0, "type", validate_token_type(token_type.v))
              ELSE s0
    IN  GetPage("addresses", StrV(address.v \o "/tokens"), s1, tr)

paginated_addresses_get_transactions(args, kwargs, tr) ==
    LET params == wrapper_params(kwargs)
        r == IF BindError(args, 1, 2)
             THEN NotBound(params, "get_transactions() takes from 2 to 3 positional arguments")
             ELSE AddressesClient_get_transactions(Arg(args, 1), Arg(args, 2), params, tr)
    IN  [r EXCEPT !.outcome = wrapper_return(r.outcome)]

paginated_addresses_get_internal_transactions(args, kwargs, tr) ==
    LET params == wrapper_params(kwargs)
        r == IF BindError(args, 1, 2)
             THEN NotBound(params, "get_internal_transactions() takes from 2 to 3 positional arguments")
             ELSE AddressesClient_get_internal_transactions(Arg(args, 1), Arg(args, 2), params, tr)
    IN  [r EXCEPT !.outcome = wrapper_return(r.outcome)]

paginated_addresses_get_token_transfers(args, kwargs, tr) ==
    LET params == wrapper_params(kwargs)
        r == IF BindError(args, 1, 4)
             THEN NotBound(params, "get_token_transfers() takes from 2 to 5 positional arguments")
             ELSE AddressesClient_get_token_transfers(Arg(args, 1), Arg(args, 2), Arg(args, 3),
                                                      Arg(args, 4), params, tr)
    IN  [r EXCEPT !.outcome = wrapper_return(r.outcome)]

paginated_addresses_get_tokens(args, kwargs, tr) ==
    LET params == wrapper_params(kwargs)
        r == IF BindError(args, 1, 2)
             THEN NotBound(params, "get_tokens() takes from 2 to 3 positional arguments")
             ELSE AddressesClient_get_tokens(Arg(args, 1), Arg(args, 2), params, tr)
    IN  [r EXCEPT !.outcome = wrapper_return(r.outcome)]

(***************************************************************************)
(* subclients/smart_contracts.py                                           *)
(***************************************************************************)
\* the body of get_smart_contracts, which builds its own params
SmartContractsClient_get_smart_contracts(query, contract_filters, tr) ==
    LET s0 == Running(DictV([q |-> query.v]))
        s1 == IF Truthy(contract_filters)
              THEN SetValidated(s0, "filter", validate_contract_filters(contract_filters.v))
              ELSE s0
    IN  GetPage("smart_contracts", None, s1, tr)

\* whether get_smart_contracts(self, query, contract_filters=None) has a params parameter
get_smart_contracts_takes_params == FALSE

paginated_get_smart_contracts(args, kwargs, tr) ==
    LET params == wrapper_params(kwargs)
        r == IF ~get_smart_contracts_takes_params
             THEN NotBound(params, "get_smart_contracts() got an unexpected keyword argument 'params'")
             ELSE IF BindError(args, 1, 2)
             THEN NotBound(params, "get_smart_contracts() missing or multiple values for an argument")
             ELSE [SmartContractsClient_get_smart_contracts(Arg(args, 1), Arg(args, 2), tr)
                      EXCEPT !.params_obj = params]
    IN  [r EXCEPT !.outcome = wrapper_return(r.outcome)]

(***************************************************************************)
(* The inputs of the endpoint calls.                                       *)
(***************************************************************************)
\* the responses the endpoint calls are run against
EndpointTransport ==
    {[t |-> "response", status_code |-> 200, text |-> BodyPage],
     [t |-> "response", status_code |-> 200, text |-> BodyLastPage],
     [t |-> "response", status_code |-> 200, text |-> BodyList],
     [t |-> "response", status_code |-> 200, text |-> BodyBad],
     [t |-> "response", status_code |-> 400, text |-> BodyBad],
     [t |-> "response", status_code |-> 500, text |-> BodyNotJson],
     [t |-> "response", status_code |-> 503, text |-> BodyNotJson],
     [t |-> "timeout", phase |-> "ReadTimeout"],
     [t |-> "timeout", phase |-> "ConnectTimeout"]}

CursorPage == [block_number |-> 100]

\* a cursor of two fields, and a params mapping a caller may pass by position
CursorItem == [block_number |-> 100, index |-> 5]
OwnParams == [limit |-> 50]

\* the keyword arguments that carry the cursor: none, None, {} or a cursor
Seeds ==
    {EmptyDict} \cup
    {[next_page_params |-> x] : x \in {None, DictV(EmptyDict), DictV(CursorPage)}}

\* a filter argument: left out (None) or a list of at most MaxFilterLen values
FilterArgs(values) == {None} \cup {ListV(l) : l \in SeqsUpTo(values, MaxFilterLen)}

\* a filter argument drawn from three cases: left out, one allowed value, one foreign value
FewArgs(value) == {None, ListV(<<value>>), ListV(<<Bogus>>)}

\* the keyword arguments of a call: the named values that are not left out
Keywords(named) ==
    LET given == {k \in DOMAIN named : named[k].t # "None"}
    IN  [k \in given |-> named[k]]

Merge(f, g) == [k \in (DOMAIN f) \cup (DOMAIN g) |-> IF k \in DOMAIN g THEN g[k] ELSE f[k]]

Styles == {"positional", "keyword"}

(***************************************************************************)
(* A call made by the caller is one atomic step that leaves the call, the  *)
(* requests it issued, its outcome and the caller's mapping in the state.  *)
(***************************************************************************)
\* the caller takes the outcome and is ready for its next call
CallerResumes ==
    /\ pc = "returned"
    /\ pc' = "idle"
    /\ UNCHANGED net
    /\ call' = NoCall
    /\ requests' = <<>>
    /\ outcome' = Return(None)
    /\ caller_params' = NoObject
    /\ UNCHANGED Config
    /\ UNCHANGED session

\* between two calls the network and the server may come to behave differently
NetworkChanges ==
    /\ pc = "idle"
    /\ net' \in Transport \ {net}
    /\ UNCHANGED <<pc, call, requests, outcome, caller_params>>
    /\ UNCHANGED Config
    /\ UNCHANGED session

(***************************************************************************)
(* Calls of the validators on their own.                                   *)
(***************************************************************************)
ListValidators ==
    {"validate_block_type", "validate_txn_type", "validate_txn_filter", "validate_method",
     "validate_token_type", "validate_contract_filters"}

CommaValidators ==
    {"validate_block_type", "validate_txn_type", "validate_method", "validate_token_type"}

PipeValidators == {"validate_txn_filter", "validate_contract_filters"}

AllowedSet(v) ==
    CASE v = "validate_block_type"         -> valid_block_types
      [] v = "validate_txn_type"           -> valid_txn_types
      [] v = "validate_txn_filter"         -> valid_txn_filters
      [] v = "validate_method"             -> valid_methods
      [] v = "validate_token_type"         -> valid_token_types
      [] v = "validate_contract_filters"   -> valid_contract_filters
      [] v = "validate_address_txn_filter" -> valid_address_txn_filters

ApplyValidator(v, x) ==
    CASE v = "validate_block_type"         -> validate_block_type(x)
      [] v = "validate_txn_type"           -> validate_txn_type(x)
      [] v = "validate_txn_filter"         -> validate_txn_filter(x)
      [] v = "validate_method"             -> validate_method(x)
      [] v = "validate_token_type"         -> validate_token_type(x)
      [] v = "validate_contract_filters"   -> validate_contract_filters(x)
      [] v = "validate_address_txn_filter" -> validate_address_txn_filter(x)

\* the inputs: a list of allowed and foreign values for a list validator, one
\* string for validate_address_txn_filter
ValidatorInputs(v) ==
    IF v \in ListValidators THEN SeqsUpTo(AllowedSet(v) \cup {Bogus}, MaxLen)
    ELSE valid_address_txn_filters \cup {Bogus, ""}

\* a caller about to apply a validator to an input; caller_params is the
\* caller's own list or string, which the validator is handed
InitValidators ==
    /\ base_url = BASE_URL
    /\ timeout = DefaultTimeout
    /\ subpath = Subpaths
    /\ request_handler = Handlers
    /\ session = <<>>
    /\ net = [t |-> "timeout", phase |-> "ConnectTimeout"]
    /\ pc = "idle"
    /\ \E v \in ListValidators \cup {"validate_address_txn_filter"} :
         \E x \in ValidatorInputs(v) :
            /\ call = [method |-> v, args |-> <<x>>]
            /\ caller_params = (IF v \in ListValidators THEN ListV(x) ELSE StrV(x))
    /\ requests = <<>>
    /\ outcome = Return(None)

\* a validator that takes the values out of the caller's list as it reads them
ValidateList_consuming ==
    /\ pc = "idle"
    /\ call.method \in ListValidators
    /\ pc' = "returned"
    /\ outcome' = ApplyValidator(call.method, call.args[1])
    /\ caller_params' = ListV(<<>>)
    /\ UNCHANGED <<net, call, requests>>
    /\ UNCHANGED Config
    /\ UNCHANGED session

\* a list validator applied to its input
ValidateList ==
    /\ pc = "idle"
    /\ call.method \in ListValidators
    /\ pc' = "returned"
    /\ outcome' = ApplyValidator(call.method, call.args[1])
    /\ UNCHANGED <<net, call, requests, caller_params>>
    /\ UNCHANGED Config
    /\ UNCHANGED session

\* validate_address_txn_filter applied to one string
ValidateAddressTxnFilter ==
    /\ pc = "idle"
    /\ call.method = "validate_address_txn_filter"
    /\ pc' = "returned"
    /\ outcome' = validate_address_txn_filter(call.args[1])
    /\ UNCHANGED <<net, call, requests, caller_params>>
    /\ UNCHANGED Config
    /\ UNCHANGED session

NextValidators == ValidateList \/ ValidateAddressTxnFilter

SpecValidators == InitValidators /\ [][NextValidators]_vars

(***************************************************************************)
(* client.py: the two endpoints of Client that use the handler directly.   *)
(***************************************************************************)
\* Client.get_withdrawals(params)
Client_get_withdrawals ==
    \E params \in {None, DictV(EmptyDict), DictV(CursorPage)} :
      LET r == APIRequestHandler_get("withdrawals", params, net)
      IN  /\ pc = "idle"
          /\ pc' = "returned"
          /\ UNCHANGED net
          /\ call' = [method |-> "Client.get_withdrawals", args |-> <<params>>,
                      kwargs |-> EmptyDict, tr |-> net]
          /\ requests' = r.requests
          /\ outcome' = r.outcome
          /\ caller_params' = NoObject
          /\ UNCHANGED Config
          /\ UNCHANGED session

\* a call that leaves its own timeout behind in the handler
Client_get_json_rpc_url_setting_timeout ==
    LET r == APIRequestHandler_get("config/json-rpc-url", None, net)
    IN    /\ pc = "idle"
          /\ pc' = "returned"
          /\ UNCHANGED net
          /\ call' = [method |-> "Client.get_json_rpc_url", args |-> <<>>,
                      kwargs |-> EmptyDict, tr |-> net]
          /\ requests' = r.requests
          /\ outcome' = r.outcome
          /\ caller_params' = NoObject
          /\ timeout' = 0
          /\ UNCHANGED <<base_url, subpath, request_handler>>
          /\ UNCHANGED session

\* Client.get_json_rpc_url()
Client_get_json_rpc_url ==
    LET r == APIRequestHandler_get("config/json-rpc-url", None, net)
    IN    /\ pc = "idle"
          /\ pc' = "returned"
          /\ UNCHANGED net
          /\ call' = [method |-> "Client.get_json_rpc_url", args |-> <<>>,
                      kwargs |-> EmptyDict, tr |-> net]
          /\ requests' = r.requests
          /\ outcome' = r.outcome
          /\ caller_params' = NoObject
          /\ UNCHANGED Config
          /\ UNCHANGED session

(***************************************************************************)
(* Calls of the paginated endpoint methods.                                *)
(***************************************************************************)
BlockTypeValues == {"block", "uncle", Bogus}

\* BlocksClient.get_blocks(block_type, next_page_params=...)
Blocks_get_blocks ==
    \E block_type \in FilterArgs(BlockTypeValues), style \in Styles,
       seed \in Seeds :
      LET args == IF style = "positional" THEN <<block_type>> ELSE <<>>
          kwargs == IF style = "positional" THEN seed
                    ELSE Merge(Keywords([block_type |-> block_type]), seed)
          r == paginated_get_blocks(args, kwargs, net)
      IN  /\ pc = "idle"
          /\ net \in EndpointTransport
          /\ UNCHANGED net
          /\ pc' = "returned"
          /\ call' = [method |-> "BlocksClient.get_blocks", args |-> args,
                      kwargs |-> kwargs, tr |-> net]
          /\ requests' = r.requests
          /\ outcome' = r.outcome
          /\ caller_params' = CallerObject(kwargs, r.params_obj)
          /\ UNCHANGED Config
          /\ UNCHANGED session

Block == StrV("17")

\* BlocksClient.get_block_txns(block, next_page_params=...), also with a params
\* mapping passed by position behind block
Blocks_get_block_txns ==
    \E extra \in {<<>>, <<DictV(OwnParams)>>},
       seed \in Seeds \cup {[next_page_params |-> DictV(CursorItem)]} :
      LET args == <<Block>> \o extra
          r == paginated_get_block_txns(args, seed, net)
      IN  /\ pc = "idle"
          /\ net \in EndpointTransport
          /\ UNCHANGED net
          /\ pc' = "returned"
          /\ call' = [method |-> "BlocksClient.get_block_txns", args |-> args,
                      kwargs |-> seed, tr |-> net]
          /\ requests' = r.requests
          /\ outcome' = r.outcome
          /\ caller_params' = CallerObject(seed, r.params_obj)
          /\ UNCHANGED Config
          /\ UNCHANGED session

\* SearchClient.search(query, next_page_params=...), also with a params mapping
\* passed by position behind query
Search_search ==
    \E extra \in {<<>>, <<DictV(OwnParams)>>}, seed \in Seeds :
      LET args == <<StrV("router")>> \o extra
          r == paginated_search(args, seed, net)
      IN  /\ pc = "idle"
          /\ net \in EndpointTransport
          /\ UNCHANGED net
          /\ pc' = "returned"
          /\ call' = [method |-> "SearchClient.search", args |-> args,
                      kwargs |-> seed, tr |-> net]
          /\ requests' = r.requests
          /\ outcome' = r.outcome
          /\ caller_params' = CallerObject(seed, r.params_obj)
          /\ UNCHANGED Config
          /\ UNCHANGED session

\* SubpathClient.get(path, params) called on a resource client
Subpath_get ==
    \E c \in DOMAIN Subpaths, path \in {None, StrV(""), StrV("charts/market")},
       params \in {None, DictV(CursorPage)} :
      LET r == SubpathClient_get(c, path, params, net)
      IN  /\ pc = "idle"
          /\ net \in EndpointTransport
          /\ UNCHANGED net
          /\ pc' = "returned"
          /\ call' = [method |-> "SubpathClient.get", args |-> <<StrV(c), path, params>>,
                      kwargs |-> EmptyDict, tr |-> net]
          /\ requests' = r.requests
          /\ outcome' = r.outcome
          /\ caller_params' = NoObject
          /\ UNCHANGED Config
          /\ UNCHANGED session

TxnFilterValues == {"pending", "validated", Bogus}

\* TransactionsClient.get_transactions(txn_filter, txn_type, method, next_page_params=...)
Transactions_get_transactions ==
    \E txn_filter \in FilterArgs(TxnFilterValues), txn_type \in FewArgs("coin_transfer"),
       method \in FewArgs("transfer"), style \in Styles,
       seed \in Seeds :
      LET args == IF style = "positional" THEN <<txn_filter, txn_type, method>> ELSE <<>>
          kwargs == IF style = "positional" THEN seed
                    ELSE Merge(Keywords([txn_filter |-> txn_filter, txn_type |-> txn_type,
                                         method |-> method]), seed)
          r == paginated_get_transactions(args, kwargs, net)
      IN  /\ pc = "idle"
          /\ net \in EndpointTransport
          /\ UNCHANGED net
          /\ pc' = "returned"
          /\ call' = [method |-> "TransactionsClient.get_transactions", args |-> args,
                      kwargs |-> kwargs, tr |-> net]
          /\ requests' = r.requests
          /\ outcome' = r.outcome
          /\ caller_params' = CallerObject(kwargs, r.params_obj)
          /\ UNCHANGED Config
          /\ UNCHANGED session

TokenTypeValues == {"ERC-20", "ERC-721", Bogus}
Address == StrV("0xabc")
NameQuery == StrV("pulse")

\* TokensClient.get_tokens(name_query, token_type, next_page_params=...)
Tokens_get_tokens ==
    \E token_type \in FilterArgs(TokenTypeValues), style \in Styles,
       seed \in Seeds :
      LET args == IF style = "positional" THEN <<NameQuery, token_type>> ELSE <<NameQuery>>
          kwargs == IF style = "positional" THEN seed
                    ELSE Merge(Keywords([token_type |-> token_type]), seed)
          r == paginated_get_tokens(args, kwargs, net)
      IN  /\ pc = "idle"
          /\ net \in EndpointTransport
          /\ UNCHANGED net
          /\ pc' = "returned"
          /\ call' = [method |-> "TokensClient.get_tokens", args |-> args,
                      kwargs |-> kwargs, tr |-> net]
          /\ requests' = r.requests
          /\ outcome' = r.outcome
          /\ caller_params' = CallerObject(kwargs, r.params_obj)
          /\ UNCHANGED Config
          /\ UNCHANGED session

\* the txn_filter argument of the address endpoints: left out or one string
AddressTxnFilterArgs == {None, StrV("to"), StrV("from"), StrV(Bogus)}

\* AddressesClient.get_transactions(address, txn_filter, next_page_params=...)
Addresses_get_transactions ==
    \E txn_filter \in AddressTxnFilterArgs, style \in Styles,
       seed \in Seeds :
      LET args == IF style = "positional" THEN <<Address, txn_filter>> ELSE <<Address>>
          kwargs == IF style = "positional" THEN seed
                    ELSE Merge(Keywords([txn_filter |-> txn_filter]), seed)
          r == paginated_addresses_get_transactions(args, kwargs, net)
      IN  /\ pc = "idle"
          /\ net \in EndpointTransport
          /\ UNCHANGED net
          /\ pc' = "returned"
          /\ call' = [method |-> "AddressesClient.get_transactions", args |-> args,
                      kwargs |-> kwargs, tr |-> net]
          /\ requests' = r.requests
          /\ outcome' = r.outcome
          /\ caller_params' = CallerObject(kwargs, r.params_obj)
          /\ UNCHANGED Config
          /\ UNCHANGED session

\* AddressesClient.get_internal_transactions(address, txn_filter, next_page_params=...)
Addresses_get_internal_transactions ==
    \E txn_filter \in AddressTxnFilterArgs, style \in Styles,
       seed \in Seeds :
      LET args == IF style = "positional" THEN <<Address, txn_filter>> ELSE <<Address>>
          kwargs == IF style = "positional" THEN seed
                    ELSE Merge(Keywords([txn_filter |-> txn_filter]), seed)
          r == paginated_addresses_get_internal_transactions(args, kwargs, net)
      IN  /\ pc = "idle"
          /\ net \in EndpointTransport
          /\ UNCHANGED net
          /\ pc' = "returned"
          /\ call' = [method |-> "AddressesClient.get_internal_transactions", args |-> args,
                      kwargs |-> kwargs, tr |-> net]
          /\ requests' = r.requests
          /\ outcome' = r.outcome
          /\ caller_params' = CallerObject(kwargs, r.params_obj)
          /\ UNCHANGED Config
          /\ UNCHANGED session

\* AddressesClient.get_token_transfers(address, token_type, txn_filter, token, next_page_params=...)
Addresses_get_token_transfers ==
    \E token_type \in FilterArgs(TokenTypeValues),
       txn_filter \in {None, StrV("to"), StrV(Bogus)}, token \in {None, StrV("0xtoken")},
       style \in Styles, seed \in Seeds :
      LET args == IF style = "positional" THEN <<Address, token_type, txn_filter, token>>
                  ELSE <<Address>>
          kwargs == IF style = "positional" THEN seed
                    ELSE Merge(Keywords([token_type |-> token_type, txn_filter |-> txn_filter,
                                         token |-> token]), seed)
          r == paginated_addresses_get_token_transfers(args, kwargs, net)
      IN  /\ pc = "idle"
          /\ net \in EndpointTransport
          /\ UNCHANGED net
          /\ pc' = "returned"
          /\ call' = [method |-> "AddressesClient.get_token_transfers", args |-> args,
                      kwargs |-> kwargs, tr |-> net]
          /\ requests' = r.requests
          /\ outcome' = r.outcome
          /\ caller_params' = CallerObject(kwargs, r.params_obj)
          /\ UNCHANGED Config
          /\ UNCHANGED session

\* AddressesClient.get_tokens(address, token_type, next_page_params=...)
Addresses_get_tokens ==
    \E token_type \in FilterArgs(TokenTypeValues), style \in Styles,
       seed \in Seeds :
      LET args == IF style = "positional" THEN <<Address, token_type>> ELSE <<Address>>
          kwargs == IF style = "positional" THEN seed
                    ELSE Merge(Keywords([token_type |-> token_type]), seed)
          r == paginated_addresses_get_tokens(args, kwargs, net)
      IN  /\ pc = "idle"
          /\ net \in EndpointTransport
          /\ UNCHANGED net
          /\ pc' = "returned"
          /\ call' = [method |-> "AddressesClient.get_tokens", args |-> args,
                      kwargs |-> kwargs, tr |-> net]
          /\ requests' = r.requests
          /\ outcome' = r.outcome
          /\ caller_params' = CallerObject(kwargs, r.params_obj)
          /\ UNCHANGED Config
          /\ UNCHANGED session

ContractFilterValues == {"solidity", "vyper", Bogus}
Query == StrV("router")

\* SmartContractsClient.get_smart_contracts(query, contract_filters, next_page_params=...)
SmartContracts_get_smart_contracts ==
    \E contract_filters \in FilterArgs(ContractFilterValues), style \in Styles,
       seed \in Seeds :
      LET args == IF style = "positional" THEN <<Query, contract_filters>> ELSE <<Query>>
          kwargs == IF style = "positional" THEN seed
                    ELSE Merge(Keywords([contract_filters |-> contract_filters]), seed)
          r == paginated_get_smart_contracts(args, kwargs, net)
      IN  /\ pc = "idle"
          /\ net \in EndpointTransport
          /\ UNCHANGED net
          /\ pc' = "returned"
          /\ call' = [method |-> "SmartContractsClient.get_smart_contracts", args |-> args,
                      kwargs |-> kwargs, tr |-> net]
          /\ requests' = r.requests
          /\ outcome' = r.outcome
          /\ caller_params' = CallerObject(kwargs, r.params_obj)
          /\ UNCHANGED Config
          /\ UNCHANGED session

Next ==
    \/ Client_get_withdrawals
    \/ Client_get_json_rpc_url
    \/ Blocks_get_blocks
    \/ Blocks_get_block_txns
    \/ Search_search
    \/ Subpath_get
    \/ Transactions_get_transactions
    \/ Tokens_get_tokens
    \/ Addresses_get_transactions
    \/ Addresses_get_internal_transactions
    \/ Addresses_get_token_transfers
    \/ Addresses_get_tokens
    \/ SmartContracts_get_smart_contracts
    \/ CallerResumes
    \/ NetworkChanges

Spec == Init /\ [][Next]_vars

(***************************************************************************)
(* A caller that makes up to MaxCalls calls, one after the other, on one   *)
(* client against a server that keeps answering the same way.  session     *)
(* keeps every call with the requests it issued, its outcome and the       *)
(* params object the wrapped method was left with.                         *)
(***************************************************************************)
SessionTransport ==
    {[t |-> "response", status_code |-> 200, text |-> BodyPage],
     [t |-> "response", status_code |-> 400, text |-> BodyBad],
     [t |-> "timeout", phase |-> "ReadTimeout"]}

\* no next_page_params, or the cursor of the page before
SessionSeeds == {EmptyDict, [next_page_params |-> DictV(CursorPage)]}

InitSession ==
    /\ base_url = BASE_URL
    /\ timeout = DefaultTimeout
    /\ subpath = Subpaths
    /\ request_handler = Handlers
    /\ session = <<>>
    /\ net \in SessionTransport
    /\ pc = "idle"
    /\ call = NoCall
    /\ requests = <<>>
    /\ outcome = Return(None)
    /\ caller_params = NoObject

\* the entry a call leaves in the session
Entry(c, r) ==
    [call |-> c, requests |-> r.requests, outcome |-> r.outcome, params_obj |-> r.params_obj]

\* AddressesClient.get_transactions(address, txn_filter, next_page_params=...)
Session_addresses_get_transactions ==
    \E txn_filter \in {None, StrV("to")}, seed \in SessionSeeds :
      LET args == <<Address, txn_filter>>
          r == paginated_addresses_get_transactions(args, seed, net)
          c == [method |-> "AddressesClient.get_transactions", args |-> args,
                kwargs |-> seed, tr |-> net]
      IN  /\ pc = "idle"
          /\ Len(session) < MaxCalls
          /\ UNCHANGED net
          /\ pc' = "returned"
          /\ call' = c
          /\ requests' = r.requests
          /\ outcome' = r.outcome
          /\ caller_params' = CallerObject(seed, r.params_obj)
          /\ session' = Append(session, Entry(c, r))
          /\ UNCHANGED Config

\* BlocksClient.get_block_txns(block, next_page_params=...)
Session_get_block_txns ==
    \E seed \in SessionSeeds :
      LET args == <<Block>>
          r == paginated_get_block_txns(args, seed, net)
          c == [method |-> "BlocksClient.get_block_txns", args |-> args,
                kwargs |-> seed, tr |-> net]
      IN  /\ pc = "idle"
          /\ Len(session) < MaxCalls
          /\ UNCHANGED net
          /\ pc' = "returned"
          /\ call' = c
          /\ requests' = r.requests
          /\ outcome' = r.outcome
          /\ caller_params' = CallerObject(seed, r.params_obj)
          /\ session' = Append(session, Entry(c, r))
          /\ UNCHANGED Config

\* SearchClient.search(query, next_page_params=...)
Session_search ==
    \E seed \in SessionSeeds :
      LET args == <<StrV("router")>>
          r == paginated_search(args, seed, net)
          c == [method |-> "SearchClient.search", args |-> args,
                kwargs |-> seed, tr |-> net]
      IN  /\ pc = "idle"
          /\ Len(session) < MaxCalls
          /\ UNCHANGED net
          /\ pc' = "returned"
          /\ call' = c
          /\ requests' = r.requests
          /\ outcome' = r.outcome
          /\ caller_params' = CallerObject(seed, r.params_obj)
          /\ session' = Append(session, Entry(c, r))
          /\ UNCHANGED Config

NextSession ==
    \/ Session_addresses_get_transactions
    \/ Session_get_block_txns
    \/ Session_search
    \/ CallerResumes

SpecSession == InitSession /\ [][NextSession]_vars

(***************************************************************************)
(* A caller that walks one result set: it starts a paginated method        *)
(* without next_page_params and passes the next_page_params of every       *)
(* envelope to the next call of the same method with the same arguments,   *)
(* until an envelope holds none or a call fails.  net is the server, which *)
(* holds net.pages pages and serves the page the request's cursor names.   *)
(***************************************************************************)
Servers == {[t |-> "server", pages |-> n] : n \in 1..MaxPages}

\* what the server does with a request: the first page for a request without
\* cursor, else the page behind the cursor
ServerAnswer(server, params) ==
    LET k == IF params.t = "dict" /\ "block_number" \in DOMAIN params.v
             THEN (params.v.block_number \div 100) + 1
             ELSE 1
    IN  [t |-> "response", status_code |-> 200, text |-> PageBody(k, k >= server.pages)]

InitWalk ==
    /\ base_url = BASE_URL
    /\ timeout = DefaultTimeout
    /\ subpath = Subpaths
    /\ request_handler = Handlers
    /\ session = <<>>
    /\ net \in Servers
    /\ pc = "idle"
    /\ call = NoCall
    /\ requests = <<>>
    /\ outcome = Return(None)
    /\ caller_params = NoObject

\* the caller may call method now: to start the walk, or to go on with it
WalkGoesOn(method) ==
    IF session = <<>> THEN TRUE
    ELSE /\ session[Len(session)].call.method = method
         /\ session[Len(session)].outcome.kind = "return"
         /\ session[Len(session)].outcome.value.next_page_params # None

\* the keyword arguments of the next call of the walk
WalkSeed ==
    IF session = <<>> THEN EmptyDict
    ELSE [next_page_params |-> session[Len(session)].outcome.value.next_page_params]

\* the arguments of the walk, chosen with its first call
SameArgs(args) == session # <<>> => args = session[1].call.args

\* the request goes to the server whatever the server will answer
NoAnswer == [t |-> "timeout", phase |-> "ReadTimeout"]

\* BlocksClient.get_blocks(block_type, next_page_params=...) along the walk
Walk_get_blocks ==
    \E block_type \in {None, ListV(<<"block">>), ListV(<<"block", "uncle">>)} :
      LET args == <<block_type>>
          sent == paginated_get_blocks(args, WalkSeed, NoAnswer).requests
          tr == IF sent = <<>> THEN NoAnswer ELSE ServerAnswer(net, sent[1].params)
          r == paginated_get_blocks(args, WalkSeed, tr)
          c == [method |-> "BlocksClient.get_blocks", args |-> args,
                kwargs |-> WalkSeed, tr |-> tr]
      IN  /\ pc = "idle"
          /\ WalkGoesOn("BlocksClient.get_blocks")
          /\ SameArgs(args)
          /\ UNCHANGED net
          /\ pc' = "returned"
          /\ call' = c
          /\ requests' = r.requests
          /\ outcome' = r.outcome
          /\ caller_params' = CallerObject(WalkSeed, r.params_obj)
          /\ session' = Append(session, Entry(c, r))
          /\ UNCHANGED Config

\* TransactionsClient.get_transactions(txn_filter, txn_type, method, next_page_params=...)
\* along the walk
Walk_get_transactions ==
    \E txn_filter \in {None, ListV(<<"pending">>)}, txn_type \in {None, ListV(<<"coin_transfer">>)},
       method \in {None, ListV(<<"transfer">>)} :
      LET args == <<txn_filter, txn_type, method>>
          sent == paginated_get_transactions(args, WalkSeed, NoAnswer).requests
          tr == IF sent = <<>> THEN NoAnswer ELSE ServerAnswer(net, sent[1].params)
          r == paginated_get_transactions(args, WalkSeed, tr)
          c == [method |-> "TransactionsClient.get_transactions", args |-> args,
                kwargs |-> WalkSeed, tr |-> tr]
      IN  /\ pc = "idle"
          /\ WalkGoesOn("TransactionsClient.get_transactions")
          /\ SameArgs(args)
          /\ UNCHANGED net
          /\ pc' = "returned"
          /\ call' = c
          /\ requests' = r.requests
          /\ outcome' = r.outcome
          /\ caller_params' = CallerObject(WalkSeed, r.params_obj)
          /\ session' = Append(session, Entry(c, r))
          /\ UNCHANGED Config

\* TokensClient.get_tokens(name_query, token_type, next_page_params=...) along the walk
Walk_get_tokens ==
    \E token_type \in {None, ListV(<<"ERC-20">>), ListV(<<"ERC-20", "ERC-721">>)} :
      LET args == <<NameQuery, token_type>>
          sent == paginated_get_tokens(args, WalkSeed, NoAnswer).requests
          tr == IF sent = <<>> THEN NoAnswer ELSE ServerAnswer(net, sent[1].params)
          r == paginated_get_tokens(args, WalkSeed, tr)
          c == [method |-> "TokensClient.get_tokens", args |-> args,
                kwargs |-> WalkSeed, tr |-> tr]
      IN  /\ pc = "idle"
          /\ WalkGoesOn("TokensClient.get_tokens")
          /\ SameArgs(args)
          /\ UNCHANGED net
          /\ pc' = "returned"
          /\ call' = c
          /\ requests' = r.requests
          /\ outcome' = r.outcome
          /\ caller_params' = CallerObject(WalkSeed, r.params_obj)
          /\ session' = Append(session, Entry(c, r))
          /\ UNCHANGED Config

NextWalk ==
    \/ Walk_get_blocks
    \/ Walk_get_transactions
    \/ Walk_get_tokens
    \/ CallerResumes

SpecWalk == InitWalk /\ [][NextWalk]_vars

(***************************************************************************)
(* utils.py: add_decimal_sign.  A string is the sequence of its            *)
(* characters.                                                             *)
(***************************************************************************)
\* a slice bound i of a sequence of length n, as Python clamps it
SliceIndex(i, n) ==
    IF i < 0 THEN (IF i + n < 0 THEN 0 ELSE i + n)
    ELSE IF i > n THEN n ELSE i

\* s[lo:hi]
Slice(s, lo, hi) == SubSeq(s, SliceIndex(lo, Len(s)) + 1, SliceIndex(hi, Len(s)))

\* string[:-decimal_places] + "." + string[-decimal_places:]
add_decimal_sign(string, decimal_places) ==
    Slice(string, 0, 0 - decimal_places) \o <<".">>
        \o Slice(string, 0 - decimal_places, Len(string))

Digits == {"0", "7"}

\* a caller about to format a string of digits
InitDecimal ==
    /\ base_url = BASE_URL
    /\ timeout = DefaultTimeout
    /\ subpath = Subpaths
    /\ request_handler = Handlers
    /\ session = <<>>
    /\ net = [t |-> "timeout", phase |-> "ConnectTimeout"]
    /\ pc = "idle"
    /\ \E string \in SeqsUpTo(Digits, MaxStrLen), decimal_places \in 0..MaxPlaces :
          call = [method |-> "add_decimal_sign", args |-> <<string, decimal_places>>]
    /\ requests = <<>>
    /\ outcome = Return(None)
    /\ caller_params = NoObject

\* add_decimal_sign(string, decimal_places)
AddDecimalSign ==
    /\ pc = "idle"
    /\ call.method = "add_decimal_sign"
    /\ pc' = "returned"
    /\ outcome' = Return(add_decimal_sign(call.args[1], call.args[2]))
    /\ UNCHANGED <<net, call, requests, caller_params>>
    /\ UNCHANGED Config
    /\ UNCHANGED session

NextDecimal == AddDecimalSign

SpecDecimal == InitDecimal /\ [][NextDecimal]_vars

(***************************************************************************)
(* Vocabulary of the properties.                                           *)
(***************************************************************************)
\* the calls that are APIRequestHandler.get and nothing else
HandlerMethods == {"Client.get_withdrawals", "Client.get_json_rpc_url"}

\* a call of APIRequestHandler.get has returned or raised
HandlerCalled == pc = "returned" /\ call.method \in HandlerMethods

RaisedExc(e) == outcome.kind = "raise" /\ outcome.exc = e

\* the body is a JSON object with a message field
HasMessage(text) ==
    /\ JsonDecode(text).ok
    /\ JsonDecode(text).val.t = "dict"
    /\ "message" \in DOMAIN JsonDecode(text).val.v

\* the pieces a text of the unknown error can have around a part of it
Affixes ==
    {""} \cup {": " \o b : b \in Bodies} \cup {ToString(c) \o ": " : c \in StatusCodes}

\* sub occurs in s
Contains(s, sub) == \E a \in Affixes, b \in Affixes : s = a \o sub \o b

\* the values x[1..n] in order with sep between neighbours and nothing else
RECURSIVE Interleave(_, _, _)
Interleave(x, sep, n) ==
    IF n = 0 THEN ""
    ELSE IF n = 1 THEN x[1]
    ELSE Interleave(x, sep, n - 1) \o sep \o x[n]

\* the filter parameters of the endpoint methods: position among the positional
\* arguments, keyword and allowed values
FilterParams(method) ==
    CASE method = "BlocksClient.get_blocks" ->
            {[pos |-> 1, name |-> "block_type", allowed |-> valid_block_types]}
      [] method = "TransactionsClient.get_transactions" ->
            {[pos |-> 1, name |-> "txn_filter", allowed |-> valid_txn_filters],
             [pos |-> 2, name |-> "txn_type", allowed |-> valid_txn_types],
             [pos |-> 3, name |-> "method", allowed |-> valid_methods]}
      [] method = "TokensClient.get_tokens" ->
            {[pos |-> 2, name |-> "token_type", allowed |-> valid_token_types]}
      [] method = "AddressesClient.get_transactions" ->
            {[pos |-> 2, name |-> "txn_filter", allowed |-> valid_address_txn_filters]}
      [] method = "AddressesClient.get_internal_transactions" ->
            {[pos |-> 2, name |-> "txn_filter", allowed |-> valid_address_txn_filters]}
      [] method = "AddressesClient.get_token_transfers" ->
            {[pos |-> 2, name |-> "token_type", allowed |-> valid_token_types],
             [pos |-> 3, name |-> "txn_filter", allowed |-> valid_address_txn_filters]}
      [] method = "AddressesClient.get_tokens" ->
            {[pos |-> 2, name |-> "token_type", allowed |-> valid_token_types]}
      [] method = "SmartContractsClient.get_smart_contracts" ->
            {[pos |-> 2, name |-> "contract_filters", allowed |-> valid_contract_filters]}
      [] OTHER -> {}

FilterMethods ==
    {"BlocksClient.get_blocks", "TransactionsClient.get_transactions", "TokensClient.get_tokens",
     "AddressesClient.get_transactions", "AddressesClient.get_internal_transactions",
     "AddressesClient.get_token_transfers", "AddressesClient.get_tokens",
     "SmartContractsClient.get_smart_contracts"}

\* the value the caller gave for a filter parameter, positionally or by keyword
Given(c, f) ==
    IF f.pos <= Len(c.args) THEN c.args[f.pos]
    ELSE IF f.name \in DOMAIN c.kwargs THEN c.kwargs[f.name]
    ELSE None

\* the argument holds a value outside the allowed set
Foreign(x, allowed) ==
    CASE x.t = "list" -> \E i \in 1..Len(x.v) : x.v[i] \notin allowed
      [] x.t = "str"  -> x.v \notin allowed
      [] OTHER        -> FALSE

HasForeignFilter(c) == \E f \in FilterParams(c.method) : Foreign(Given(c, f), f.allowed)

\* the query parameters of a request
QueryParams(req) == IF req.params.t = "dict" THEN req.params.v ELSE EmptyDict

(***************************************************************************)
(* C1: APIRequestHandler.get maps the status of the response to its        *)
(* outcome.  200 returns the decoded JSON body; 500 raises                 *)
(* PulseChainServerError whatever the body; 422 and 400, whose bodies      *)
(* carry a message by the status-code contract, raise                      *)
(* PulseChainUnprocessableEntityException and                              *)
(* PulseChainBadRequestException; every other status raises                *)
(* PulseChainUnknownException with a text that contains the status code    *)
(* and the raw body.                                                       *)
(***************************************************************************)
C1_StatusMapping ==
    (HandlerCalled /\ call.tr.t = "response") =>
        LET st == call.tr.status_code
            text == call.tr.text
        IN  /\ (st = 200 /\ JsonDecode(text).ok) => outcome = Return(JsonDecode(text).val)
            /\ (st = 200 /\ text = BodyList) => outcome = Return(ListV(<<[a |-> 1]>>))
            /\ st = 500 => RaisedExc("PulseChainServerError")
            /\ (st = 422 /\ HasMessage(text)) => RaisedExc("PulseChainUnprocessableEntityException")
            /\ (st = 400 /\ HasMessage(text)) => RaisedExc("PulseChainBadRequestException")
            /\ st \notin {200, 500, 422, 400} =>
                  /\ RaisedExc("PulseChainUnknownException")
                  /\ Contains(outcome.msg, ToString(st))
                  /\ Contains(outcome.msg, text)

\* a 503 has been answered with the unknown error
C1_Witness ==
    /\ HandlerCalled
    /\ call.tr.t = "response"
    /\ call.tr.status_code = 503
    /\ call.tr.text = BodyNotJson
    /\ RaisedExc("PulseChainUnknownException")
    /\ outcome.msg = "503: Service Unavailable"

(***************************************************************************)
(* C2: for a 400 or 422 response whose JSON body has a message field m,    *)
(* the exception raised by APIRequestHandler.get carries exactly m.        *)
(***************************************************************************)
C2_MessageCarried ==
    (HandlerCalled /\ call.tr.t = "response" /\ call.tr.status_code \in {400, 422}
        /\ HasMessage(call.tr.text)) =>
        /\ outcome.kind = "raise"
        /\ outcome.exc = (IF call.tr.status_code = 400 THEN "PulseChainBadRequestException"
                          ELSE "PulseChainUnprocessableEntityException")
        /\ outcome.msg = JsonDecode(call.tr.text).val.v.message
        /\ call.tr.text = BodyBad => outcome.msg = "bad"
        /\ call.tr.text = BodyInvalid => outcome.msg = "invalid hash"

\* a 422 with a message has been answered with that message
C2_Witness ==
    /\ HandlerCalled
    /\ call.tr.t = "response"
    /\ call.tr.status_code = 422
    /\ call.tr.text = BodyInvalid
    /\ RaisedExc("PulseChainUnprocessableEntityException")
    /\ outcome.msg = "invalid hash"

(***************************************************************************)
(* C3: every failure seen by APIRequestHandler.get, any non-200 response   *)
(* whatever its body and any transport timeout, reaches the caller as an   *)
(* exception of the PulseChainAPIException hierarchy.                      *)
(***************************************************************************)
C3_TypedFailure ==
    (HandlerCalled /\ (call.tr.t = "timeout" \/ call.tr.status_code # 200)) =>
        (outcome.kind = "raise" /\ outcome.exc \in PulseChainAPIException)

(***************************************************************************)
(* C4: when the request of APIRequestHandler.get times out, in any phase,  *)
(* the call raises PulseChainTimeoutException.                             *)
(***************************************************************************)
C4_TimeoutWrapped ==
    (HandlerCalled /\ call.tr.t = "timeout") => RaisedExc("PulseChainTimeoutException")

(***************************************************************************)
(* C5: a call of an endpoint method whose filter argument holds a value    *)
(* outside the allowed set raises PulseChainBadParamException and issues   *)
(* no HTTP request.                                                        *)
(***************************************************************************)
C5_ValidationBeforeIO ==
    (pc = "returned" /\ call.method \in FilterMethods /\ HasForeignFilter(call)) =>
        (RaisedExc("PulseChainBadParamException") /\ requests = <<>>)

(***************************************************************************)
(* C6: every validator raises PulseChainBadParamException whenever its     *)
(* input holds at least one value outside its allowed set, wherever the    *)
(* value stands and whatever allowed values accompany it.                  *)
(***************************************************************************)
C6_ForeignValueRaises ==
    (pc = "returned" /\
        IF call.method \in ListValidators
        THEN \E i \in 1..Len(call.args[1]) : call.args[1][i] \notin AllowedSet(call.method)
        ELSE call.args[1] \notin AllowedSet(call.method)) =>
        RaisedExc("PulseChainBadParamException")

\* a foreign value behind an allowed one has been refused
C6_Witness ==
    /\ pc = "returned"
    /\ call.method = "validate_method"
    /\ call.args[1] = <<"approve", Bogus>>
    /\ RaisedExc("PulseChainBadParamException")

(***************************************************************************)
(* C7: for a list of allowed values the comma validators return the        *)
(* values in input order joined by "," with nothing else added;            *)
(* ["block","uncle"] gives "block,uncle".                                  *)
(***************************************************************************)
C7_CommaJoin ==
    (pc = "returned" /\ call.method \in CommaValidators
        /\ \A i \in 1..Len(call.args[1]) : call.args[1][i] \in AllowedSet(call.method)) =>
        /\ outcome = Return(Interleave(call.args[1], ",", Len(call.args[1])))
        /\ (call.method = "validate_block_type" /\ call.args[1] = <<"block", "uncle">>)
              => outcome = Return("block,uncle")

\* validate_block_type has joined ["block","uncle"]
C7_Witness ==
    /\ pc = "returned"
    /\ call.method = "validate_block_type"
    /\ call.args[1] = <<"block", "uncle">>
    /\ outcome = Return("block,uncle")

(***************************************************************************)
(* C8: for a list of two or more allowed values the pipe validators        *)
(* return the values in input order with the pipe character as the only    *)
(* separator; ["pending","validated"] gives "pending|validated".           *)
(***************************************************************************)
C8_PipeJoin ==
    (pc = "returned" /\ call.method \in PipeValidators /\ Len(call.args[1]) >= 2
        /\ \A i \in 1..Len(call.args[1]) : call.args[1][i] \in AllowedSet(call.method)) =>
        outcome = Return(Interleave(call.args[1], "|", Len(call.args[1])))

(***************************************************************************)
(* C9: get_blocks(block_type=["block","uncle"]) issues a GET to the blocks *)
(* subpath whose query parameters contain type=block,uncle.                *)
(***************************************************************************)
C9_BlockTypeInQuery ==
    (pc = "returned" /\ call.method = "BlocksClient.get_blocks" /\ call.args = <<>>
        /\ call.kwargs = [block_type |-> ListV(<<"block", "uncle">>)]) =>
        /\ Len(requests) = 1
        /\ requests[1].url = base_url \o "/blocks"
        /\ "type" \in DOMAIN QueryParams(requests[1])
        /\ QueryParams(requests[1])["type"] = "block,uncle"

(***************************************************************************)
(* C10: get_transactions(txn_filter=["pending"]) issues a GET to the       *)
(* transactions subpath whose query parameters contain filter=pending;     *)
(* with several filter values the filter parameter holds them pipe-joined. *)
(***************************************************************************)
C10_TxnFilterInQuery ==
    (pc = "returned" /\ call.method = "TransactionsClient.get_transactions" /\ call.args = <<>>
        /\ DOMAIN call.kwargs = {"txn_filter"}
        /\ Len(call.kwargs.txn_filter.v) >= 1
        /\ ~Foreign(call.kwargs.txn_filter, valid_txn_filters)) =>
        /\ Len(requests) = 1
        /\ requests[1].url = base_url \o "/transactions"
        /\ "filter" \in DOMAIN QueryParams(requests[1])
        /\ QueryParams(requests[1])["filter"] =
              Interleave(call.kwargs.txn_filter.v, "|", Len(call.kwargs.txn_filter.v))

(***************************************************************************)
(* Vocabulary of the pagination properties.                                *)
(***************************************************************************)
\* the endpoint methods decorated with the pagination wrapper
PaginatedMethods == FilterMethods \cup {"BlocksClient.get_block_txns", "SearchClient.search"}

\* the paginated methods that put a query argument of theirs into the parameters
QueryMethods ==
    {"TokensClient.get_tokens", "SearchClient.search", "SmartContractsClient.get_smart_contracts"}

\* the number of parameters a method takes by position before params
Positional(method) ==
    CASE method = "BlocksClient.get_blocks" -> 1
      [] method = "BlocksClient.get_block_txns" -> 1
      [] method = "SearchClient.search" -> 1
      [] method = "TransactionsClient.get_transactions" -> 3
      [] method = "TokensClient.get_tokens" -> 2
      [] method = "AddressesClient.get_transactions" -> 2
      [] method = "AddressesClient.get_internal_transactions" -> 2
      [] method = "AddressesClient.get_token_transfers" -> 4
      [] method = "AddressesClient.get_tokens" -> 2
      [] method = "SmartContractsClient.get_smart_contracts" -> 2

\* the caller passed a params mapping by position
PassesParams(c) == Len(c.args) > Positional(c.method)

\* the arguments that go into the query parameters unvalidated
PlainParams(method) ==
    IF method = "AddressesClient.get_token_transfers"
    THEN {[pos |-> 4, name |-> "token"]}
    ELSE {}

\* the caller gave no filter argument
NoFilterGiven(c) ==
    /\ \A f \in FilterParams(c.method) : Given(c, f) = None
    /\ \A f \in PlainParams(c.method) : Given(c, f) = None

\* the call carries next_page_params
HasSeed(c) == "next_page_params" \in DOMAIN c.kwargs

\* a paginated call has returned or raised
PaginatedCalled == pc = "returned" /\ call.method \in PaginatedMethods

\* the one request of the call was answered 200 with the body text
Answered(text) ==
    /\ Len(requests) = 1
    /\ call.tr.t = "response"
    /\ call.tr.status_code = 200
    /\ call.tr.text = text

PaginatedResponse(items, next_page_params) ==
    [cls |-> "PaginatedResponse", items |-> items, next_page_params |-> next_page_params]

(***************************************************************************)
(* C11: a paginated call without next_page_params seeds the wrapped        *)
(* method with an empty mapping: a method without filter or query          *)
(* arguments sends exactly one request, with no query parameters, and a    *)
(* method with a query argument sends that argument and nothing else.      *)
(***************************************************************************)
C11_EmptySeed ==
    (PaginatedCalled /\ ~HasSeed(call) /\ NoFilterGiven(call) /\ ~PassesParams(call)) =>
        /\ call.method \notin QueryMethods =>
              (Len(requests) = 1 /\ requests[1].params = DictV(EmptyDict))
        /\ call.method = "SearchClient.search" =>
              (Len(requests) = 1 /\ requests[1].params = DictV([q |-> "router"]))
        /\ call.method = "TokensClient.get_tokens" =>
              (Len(requests) = 1 /\ requests[1].params = DictV([q |-> "pulse"]))

\* get_block_txns without next_page_params has sent a request without parameters
C11_Witness ==
    /\ PaginatedCalled
    /\ call.method = "BlocksClient.get_block_txns"
    /\ call.args = <<Block>>
    /\ call.kwargs = EmptyDict
    /\ Len(requests) = 1
    /\ requests[1].params = DictV(EmptyDict)

(***************************************************************************)
(* C12: a paginated call with next_page_params=P, P a mapping, and without *)
(* filter or query arguments sends one request whose query parameters are  *)
(* exactly the fields of P.                                                *)
(***************************************************************************)
C12_CursorForwarded ==
    (PaginatedCalled /\ call.method \notin QueryMethods /\ HasSeed(call)
        /\ call.kwargs.next_page_params.t = "dict"
        /\ NoFilterGiven(call) /\ ~PassesParams(call)) =>
        /\ Len(requests) = 1
        /\ requests[1].params.t = "dict"
        /\ DOMAIN requests[1].params.v = DOMAIN call.kwargs.next_page_params.v
        /\ \A k \in DOMAIN requests[1].params.v :
              requests[1].params.v[k] = call.kwargs.next_page_params.v[k]

\* get_block_txns has forwarded a cursor of two fields
C12_Witness ==
    /\ PaginatedCalled
    /\ call.method = "BlocksClient.get_block_txns"
    /\ call.kwargs = [next_page_params |-> DictV(CursorItem)]
    /\ Len(requests) = 1
    /\ requests[1].params = DictV([block_number |-> 100, index |-> 5])

(***************************************************************************)
(* C13: when the request of a paginated call is answered 200 with          *)
(* {items: I, next_page_params: N}, the call returns a PaginatedResponse   *)
(* whose items are I in the same order and whose next_page_params is N, a  *)
(* mapping or null.                                                        *)
(***************************************************************************)
C13_Envelope ==
    PaginatedCalled =>
        /\ Answered(BodyPage) =>
              outcome = Return(PaginatedResponse(<<[a |-> 1]>>, DictV([block_number |-> 100])))
        /\ Answered(BodyLastPage) =>
              outcome = Return(PaginatedResponse(<<[a |-> 1], [b |-> 2]>>, None))

\* a page with a cursor has come back in the envelope
C13_Witness ==
    /\ PaginatedCalled
    /\ call.method = "AddressesClient.get_tokens"
    /\ Answered(BodyPage)
    /\ outcome = Return(PaginatedResponse(<<[a |-> 1]>>, DictV([block_number |-> 100])))

(***************************************************************************)
(* C14: SubpathClient.get returns {"items": L} when the decoded body is a  *)
(* bare list L, and the decoded body unchanged when it is a mapping.       *)
(***************************************************************************)
C14_BareListWrapped ==
    (pc = "returned" /\ call.method = "SubpathClient.get") =>
        /\ Answered(BodyList) => outcome = Return(DictV([items |-> <<[a |-> 1]>>]))
        /\ Answered(BodyBad) => outcome = Return(DictV([message |-> "bad"]))
        /\ Answered(BodyPage) =>
              outcome = Return(DictV([items |-> <<[a |-> 1]>>,
                                      next_page_params |-> DictV([block_number |-> 100])]))
        /\ Answered(BodyLastPage) =>
              outcome = Return(DictV([items |-> <<[a |-> 1], [b |-> 2]>>,
                                      next_page_params |-> None]))

\* a bare list has come back under the items key
C14_Witness ==
    /\ pc = "returned"
    /\ call.method = "SubpathClient.get"
    /\ Answered(BodyList)
    /\ outcome = Return(DictV([items |-> <<[a |-> 1]>>]))

(***************************************************************************)
(* C15: when the request of a paginated call is answered 200 with items    *)
(* and no next_page_params key, as a bare list is after normalisation, the *)
(* call returns an envelope with those items and a null next_page_params.  *)
(***************************************************************************)
C15_MissingCursorIsNull ==
    (PaginatedCalled /\ Answered(BodyList)) =>
        outcome = Return(PaginatedResponse(<<[a |-> 1]>>, None))

(***************************************************************************)
(* C16: every call of a public method issues at most one HTTP GET request: *)
(* none follows a failed request and none follows a page whose             *)
(* next_page_params is not null.                                           *)
(***************************************************************************)
C16_SingleRequest ==
    pc = "returned" => Len(requests) <= 1

\* a page with a cursor has been returned after one request
C16_Witness ==
    /\ PaginatedCalled
    /\ Answered(BodyPage)
    /\ outcome.kind = "return"
    /\ outcome.value.next_page_params # None
    /\ Len(requests) = 1

(***************************************************************************)
(* C17: SmartContractsClient.get_smart_contracts called with valid         *)
(* arguments, the server answering 200 with items and next_page_params,    *)
(* returns a PaginatedResponse and does not fail inside the wrapper.       *)
(***************************************************************************)
C17_SmartContractsPaginated ==
    (pc = "returned" /\ call.method = "SmartContractsClient.get_smart_contracts"
        /\ ~HasForeignFilter(call)
        /\ (HasSeed(call) => call.kwargs.next_page_params.t = "dict")
        /\ call.tr.t = "response" /\ call.tr.status_code = 200
        /\ call.tr.text \in {BodyPage, BodyLastPage}) =>
        /\ outcome.kind = "return"
        /\ outcome.value.cls = "PaginatedResponse"

(***************************************************************************)
(* C18: after any sequence of calls, successful or failing, the            *)
(* configuration of the client objects is the one set at construction:     *)
(* the handler's base_url and timeout, each resource client's subpath and  *)
(* request handler.                                                        *)
(***************************************************************************)
C18_ConfigUnchanged ==
    /\ base_url = BASE_URL
    /\ timeout = DefaultTimeout
    /\ subpath = Subpaths
    /\ request_handler = Handlers

\* a call has failed and the configuration is as constructed
C18_Witness ==
    /\ pc = "returned"
    /\ RaisedExc("PulseChainServerError")
    /\ Config = <<BASE_URL, DefaultTimeout, Subpaths, Handlers>>

C20_PositionalParamsDropped ==
    (PaginatedCalled /\ PassesParams(call) /\ HasSeed(call)
        /\ call.kwargs.next_page_params.t = "dict") =>
        /\ ~RaisedExc("TypeError")
        /\ Len(requests) = 1
        /\ requests[1].params = call.kwargs.next_page_params

(***************************************************************************)
(* C20 as amended: a paginated call that passes a params mapping by        *)
(* position and also next_page_params raises TypeError, the wrapper        *)
(* passing params a second time by keyword, and issues no request.         *)
(***************************************************************************)
C20_PositionalParamsRejected ==
    (PaginatedCalled /\ PassesParams(call) /\ HasSeed(call)) =>
        /\ RaisedExc("TypeError")
        /\ requests = <<>>

\* get_block_txns with both mappings has raised TypeError before any request
C20_Witness ==
    /\ PaginatedCalled
    /\ call.method = "BlocksClient.get_block_txns"
    /\ call.args = <<Block, DictV(OwnParams)>>
    /\ call.kwargs = [next_page_params |-> DictV(CursorPage)]
    /\ RaisedExc("TypeError")
    /\ requests = <<>>

(***************************************************************************)
(* C21: the URL a resource client requests is base_url/subpath/path for a  *)
(* non-empty path and base_url/subpath when the path is omitted or empty,  *)
(* the subpath being the fixed prefix of the client.                       *)
(***************************************************************************)
C21_UrlBuilt ==
    (pc = "returned" /\ call.method = "SubpathClient.get") =>
        LET c == call.args[1].v
            path == call.args[2]
            prefix == CASE c = "addresses" -> "addresses"
                        [] c = "blocks" -> "blocks"
                        [] c = "tokens" -> "tokens"
                        [] c = "transactions" -> "transactions"
                        [] c = "smart_contracts" -> "smart-contracts"
                        [] c = "stats" -> "stats"
                        [] c = "search" -> "search"
        IN  /\ Len(requests) = 1
            /\ (path.t = "str" /\ path.v # "") =>
                  requests[1].url = BASE_URL \o "/" \o prefix \o "/" \o path.v
            /\ (path.t = "None" \/ (path.t = "str" /\ path.v = "")) =>
                  requests[1].url = BASE_URL \o "/" \o prefix

\* the smart contracts client has requested its bare subpath
C21_Witness ==
    /\ pc = "returned"
    /\ call.method = "SubpathClient.get"
    /\ call.args[1] = StrV("smart_contracts")
    /\ call.args[2] = None
    /\ Len(requests) = 1
    /\ requests[1].url = "https://api.scan.pulsechain.com/api/v2/smart-contracts"

(***************************************************************************)
(* C22: validators are pure and total.  For every list of strings, the     *)
(* empty list and lists with repeated values included, a validator either  *)
(* returns a string or raises PulseChainBadParamException and nothing      *)
(* else, and the caller's list holds afterwards what it held before.       *)
(***************************************************************************)
C22_PureTotal ==
    (pc = "returned" /\ call.method \in ListValidators) =>
        /\ \/ outcome.kind = "return" /\ outcome.value \in STRING
           \/ RaisedExc("PulseChainBadParamException")
        /\ caller_params = ListV(call.args[1])

\* a list with a repeated value has been validated and is still what it was
C22_Witness ==
    /\ pc = "returned"
    /\ call.method = "validate_token_type"
    /\ call.args[1] = <<"ERC-20", "ERC-20">>
    /\ outcome = Return("ERC-20,ERC-20")
    /\ caller_params = ListV(<<"ERC-20", "ERC-20">>)

(***************************************************************************)
(* C23: within one endpoint call PulseChainBadParamException is raised     *)
(* only when the call has issued no HTTP request, and an exception of the  *)
(* PulseChainAPIException hierarchy only after the call's request was      *)
(* attempted.                                                              *)
(***************************************************************************)
C23_ErrorOrder ==
    (pc = "returned" /\ outcome.kind = "raise") =>
        /\ outcome.exc = "PulseChainBadParamException" => requests = <<>>
        /\ outcome.exc \in PulseChainAPIException => Len(requests) = 1

\* a foreign token type has been refused before any request
C23_Witness ==
    /\ pc = "returned"
    /\ call.method = "TokensClient.get_tokens"
    /\ call.args = <<NameQuery, ListV(<<Bogus>>)>>
    /\ RaisedExc("PulseChainBadParamException")
    /\ requests = <<>>

(***************************************************************************)
(* C24: a keyword argument other than next_page_params reaches the wrapped *)
(* method with the value given, so it is validated and applied as when     *)
(* passed by position: a foreign filter value passed by keyword raises     *)
(* PulseChainBadParamException, and token= is sent as the token parameter. *)
(***************************************************************************)
C24_KeywordsReachMethod ==
    (PaginatedCalled /\ call.method # "SmartContractsClient.get_smart_contracts") =>
        /\ \A f \in FilterParams(call.method) :
              (f.name \in DOMAIN call.kwargs /\ Foreign(call.kwargs[f.name], f.allowed)) =>
                  RaisedExc("PulseChainBadParamException")
        /\ ("token" \in DOMAIN call.kwargs /\ Len(requests) = 1) =>
              /\ "token" \in DOMAIN QueryParams(requests[1])
              /\ QueryParams(requests[1])["token"] = call.kwargs["token"].v

(***************************************************************************)
(* C25: TransactionsClient.get_transactions validates and applies its      *)
(* positional txn_filter, txn_type and method on the first page, without   *)
(* next_page_params, as on a continuation page: an invalid value raises    *)
(* PulseChainBadParamException and valid values are sent as filter,        *)
(* tx_type and method.                                                     *)
(***************************************************************************)
C25_FirstPageFilters ==
    (pc = "returned" /\ call.method = "TransactionsClient.get_transactions"
        /\ Len(call.args) = 3 /\ ~HasSeed(call)) =>
        /\ HasForeignFilter(call) =>
              (RaisedExc("PulseChainBadParamException") /\ requests = <<>>)
        /\ ~HasForeignFilter(call) =>
              /\ Len(requests) = 1
              /\ Truthy(call.args[1]) => "filter" \in DOMAIN QueryParams(requests[1])
              /\ Truthy(call.args[2]) => "tx_type" \in DOMAIN QueryParams(requests[1])
              /\ Truthy(call.args[3]) => "method" \in DOMAIN QueryParams(requests[1])

(***************************************************************************)
(* C26: next_page_params=None behaves like next_page_params omitted: every *)
(* paginated method issues its request and does not fail on the null seed. *)
(***************************************************************************)
C26_NullSeedAccepted ==
    (PaginatedCalled /\ call.method # "SmartContractsClient.get_smart_contracts"
        /\ HasSeed(call) /\ call.kwargs.next_page_params = None
        /\ ~PassesParams(call) /\ ~HasForeignFilter(call)) =>
        /\ ~RaisedExc("TypeError")
        /\ Len(requests) = 1

(***************************************************************************)
(* C27: a paginated call leaves the mapping the caller passed as           *)
(* next_page_params with exactly the keys and values it held before, also  *)
(* when the method adds query parameters of its own to the request.        *)
(***************************************************************************)
C27_CallerMappingUnchanged ==
    (PaginatedCalled /\ HasSeed(call) /\ call.kwargs.next_page_params.t = "dict") =>
        caller_params = call.kwargs.next_page_params

(***************************************************************************)
(* Vocabulary of the walk.                                                 *)
(***************************************************************************)
\* the query parameters a call adds for its own arguments
OwnKeys(c) ==
    CASE c.method = "BlocksClient.get_blocks" ->
            IF Truthy(c.args[1]) THEN {"type"} ELSE {}
      [] c.method = "TransactionsClient.get_transactions" ->
            (IF Truthy(c.args[1]) THEN {"filter"} ELSE {})
                \cup (IF Truthy(c.args[2]) THEN {"tx_type"} ELSE {})
                \cup (IF Truthy(c.args[3]) THEN {"method"} ELSE {})
      [] c.method = "TokensClient.get_tokens" ->
            {"q"} \cup (IF Truthy(c.args[2]) THEN {"type"} ELSE {})

\* the cursor the server returned with page k, none before the first page
CursorOf(k) == IF k = 0 THEN EmptyDict ELSE [block_number |-> k * 100]

(***************************************************************************)
(* C28: a caller who walks a result set of N pages makes N calls of one    *)
(* request each; the k-th request carries the cursor returned by call k-1  *)
(* and the method's own filter parameters, the k-th envelope holds the     *)
(* items of page k, and the N-th envelope, and no earlier one, has a null  *)
(* next_page_params.                                                       *)
(***************************************************************************)
C28_WalkComplete ==
    \A k \in 1..Len(session) :
        /\ k <= net.pages
        /\ Len(session[k].requests) = 1
        /\ session[k].requests[1].params.t = "dict"
        /\ DOMAIN session[k].requests[1].params.v
              = (DOMAIN CursorOf(k - 1)) \cup OwnKeys(session[k].call)
        /\ \A f \in DOMAIN CursorOf(k - 1) :
              session[k].requests[1].params.v[f] = CursorOf(k - 1)[f]
        /\ session[k].outcome =
              Return(PaginatedResponse(<<[page |-> k]>>,
                                       IF k < net.pages THEN DictV(CursorOf(k)) ELSE None))

(***************************************************************************)
(* C29: add_decimal_sign(string, decimal_places) inserts one dot           *)
(* decimal_places characters from the right: the result without its dot is *)
(* the input string and exactly decimal_places characters follow the dot,  *)
(* for every string and every decimal_places >= 0.                         *)
(***************************************************************************)
C29_DotPlaced ==
    (pc = "returned" /\ call.method = "add_decimal_sign") =>
        LET string == call.args[1]
            decimal_places == call.args[2]
            result == outcome.value
            NotDot(ch) == ch # "."
        IN  /\ Len(result) = Len(string) + 1
            /\ SelectSeq(result, NotDot) = string
            /\ Len(result) - decimal_places >= 1
            /\ result[Len(result) - decimal_places] = "."

====
